---------------------------- MODULE Spec2Model ----------------------------
(***************************************************************************)
(* Model of the .xcstrings reconciliation of mac-mouse-fix-scripts:        *)
(* StringsSync/syncstrings.py, update_xcstrings, together with the helpers *)
(* it calls.  A catalog (the "strings" object of an .xcstrings file) is a  *)
(* function from keys to entries; a key is a sequence of one-character     *)
(* strings, so that adding and removing an index prefix ("003:some.key")   *)
(* are real conversions.                                                   *)
(***************************************************************************)
EXTENDS Naturals, Integers, Sequences, FiniteSets, TLC

(***************************************************************************)
(* Bounds of the model.                                                    *)
(***************************************************************************)
MaxDecls == 2      \* longest list of extracted strings
MaxEntries == 2    \* most entries of the catalog file before the first pass
MaxPasses == 2     \* update_xcstrings calls in one behaviour

(***************************************************************************)
(* Width of the numeric index prefix ("003:some.key").                     *)
(***************************************************************************)
IndexWidth == 3

Digits == <<"0", "1", "2", "3", "4", "5", "6", "7", "8", "9">>

DigitSet == {Digits[i] : i \in 1..Len(Digits)}

\* The keys the documents declare (without index prefix).
BareKeys == {<<"a">>, <<"b">>}

\* Python's None as a key_with_index_prefix (no key is empty).
None == <<>>

\* info.get('extractionState', None) of an entry without the field.
NoExtractionState == "None"

source_language == "en"

\* The one translation locale of the model.
translation_locale == "de"

(***************************************************************************)
(* Index prefixes.                                                         *)
(***************************************************************************)
RECURSIVE ZeroPad(_, _)
\* n as a decimal numeral of `width` digits, zero-padded on the left.
ZeroPad(n, width) ==
    IF width = 0 THEN <<>>
    ELSE Append(ZeroPad(n \div 10, width - 1), Digits[(n % 10) + 1])

\* The key with the prefix of index n: "001:" followed by the key.
ApplyIndexPrefix(key, n) == ZeroPad(n, IndexWidth) \o <<":">> \o key

HasIndexPrefix(key) ==
    /\ Len(key) > IndexWidth
    /\ \A i \in 1..IndexWidth : key[i] \in DigitSet
    /\ key[IndexWidth + 1] = ":"

\* mflocales.remove_index_prefix_from_key: 003:some.key -> some.key, and a
\* key without prefix is returned as it is.
remove_index_prefix_from_key(key) ==
    IF HasIndexPrefix(key) THEN SubSeq(key, IndexWidth + 2, Len(key)) ELSE key

(***************************************************************************)
(* Python dict operations on a catalog.                                    *)
(***************************************************************************)
\* d[k] = e
DictSet(d, k, e) == [x \in (DOMAIN d) \cup {k} |-> IF x = k THEN e ELSE d[x]]

\* del d[k]
DictDel(d, k) == [x \in (DOMAIN d) \ {k} |-> d[x]]

EmptyDict == [x \in {} |-> x]


(***************************************************************************)
(* State.                                                                  *)
(***************************************************************************)
VARIABLES
    xcstrings_file,      \* "strings" of the .xcstrings file at xcstrings_path
    xcstrings_obj,       \* "strings" of the object update_xcstrings holds
    extracted_strings,   \* the StringsDataItems of the document
    did_extract_values,  \* whether the pass carries the source-locale text
    created_state,       \* extractionState the tool gives an entry it creates
    pc,                  \* position of update_xcstrings
    pass,                \* calls of update_xcstrings so far
    before,              \* the file when the current call began
    source_files,        \* main: what each source path holds and syncs into
    source_index,        \* main: position of the loop over source_paths
    main_pc,             \* main: "loop", "returned" or "raised"
    translation_call,    \* get_translation: its arguments
    translation_result,  \* get_translation: what it returned or that it raised
    md_string,           \* get_localizable_strings_from_markdown: its argument
    md_result,           \* ... and what it returned or that it raised
    catalog_header,      \* update_xcstrings: whether the file exists, and its
                         \* 'version' and 'sourceLanguage'
    progress_call,       \* get_localization_progress: its arguments
    progress_result,     \* ... and what it returned or that it raised
    link_string,         \* replace_markdown_urls_with_format_specifiers:
                         \* its argument
    link_result,         \* ... what it returned, and what
                         \* replace_format_specifiers_with_markdown_urls
                         \* made of that
    indent_call,         \* set_indent: its arguments
    indent_result,       \* ... what it returned, and get_indent of that
    build_loaded,        \* buildmd: "strings" of the catalog as loaded
    build_strings        \* buildmd: "strings" after the loop of line 226

syncVars == <<xcstrings_file, xcstrings_obj, extracted_strings,
              did_extract_values, created_state, pc, pass, before>>

mainVars == <<source_files, source_index, main_pc>>

translationVars == <<translation_call, translation_result>>

markdownVars == <<md_string, md_result>>

callVars == <<catalog_header>>

progressVars == <<progress_call, progress_result>>

linkVars == <<link_string, link_result>>

indentVars == <<indent_call, indent_result>>

buildVars == <<build_loaded, build_strings>>

restVars == <<progressVars, linkVars, indentVars, buildVars>>

vars == <<syncVars, mainVars, translationVars, markdownVars, callVars,
          restVars>>

(***************************************************************************)
(* Values.                                                                 *)
(***************************************************************************)
\* The source text the catalog holds before the pass, and the one the
\* document declares.
OldValue == "Hello"
NewValue == "Hello!"

StringUnit(state, value) == [state |-> state, value |-> value]

\* The translator's text.
Translation == "Hallo"

InitUnit(locale) ==
    StringUnit("translated",
               IF locale = source_language THEN OldValue ELSE Translation)

\* "localizations" of an entry before the first pass: none, the source unit,
\* or the source unit and its translation.
InitLocalizations ==
    {[l \in L |-> InitUnit(l)] :
        L \in {{}, {source_language}, {source_language, translation_locale}}}

InitEntries ==
    [extractionState : {"manual"}, localizations : InitLocalizations]

IndexRange == 0..(MaxDecls - 1)

PrefixedKeys == {ApplyIndexPrefix(k, n) : k \in BareKeys, n \in IndexRange}

CatalogKeys == BareKeys \cup PrefixedKeys

\* Key sets of a catalog file: at most one index-prefixed form of a bare key
\* (update_xcstrings writes one key per declaration), possibly next to the
\* bare key itself.
InitKeySets ==
    {S \in SUBSET CatalogKeys :
        /\ Cardinality(S) <= MaxEntries
        /\ \A x \in S \cap PrefixedKeys, y \in S \cap PrefixedKeys :
              remove_index_prefix_from_key(x) = remove_index_prefix_from_key(y)
                  => x = y}

InitCatalogs == UNION {[S -> InitEntries] : S \in InitKeySets}

\* StringsDataItem (syncstrings.py:53-58).  The item at position i of the
\* document carries no prefix (None), its bare key, or the prefix of its
\* position.
StringsDataItem(key, key_with_index_prefix) ==
    [key |-> key, value |-> NewValue,
     key_with_index_prefix |-> key_with_index_prefix]

ItemsAt(i) ==
    UNION {{StringsDataItem(k, p) :
               p \in {None, k, ApplyIndexPrefix(k, i - 1)}} : k \in BareKeys}

ItemLists ==
    UNION {{s \in [1..n -> UNION {ItemsAt(i) : i \in 1..n}] :
               \A i \in 1..n : s[i] \in ItemsAt(i)} : n \in 1..MaxDecls}

DeclaredKeys(items) == {items[i].key : i \in 1..Len(items)}

(***************************************************************************)
(* update_xcstrings, before the tool (syncstrings.py:263-300).             *)
(***************************************************************************)
extraction_state(did) == IF did THEN "extracted_with_value" ELSE "extracted"

\* SetExtractionState writing "extracted" whatever the pass carries.
SetExtractionState_IgnoreFlag(strings, did) ==
    [k \in DOMAIN strings |->
        [strings[k] EXCEPT !.extractionState = "extracted"]]

\* 1. Modification: the extractionState of all strings.
SetExtractionState(strings, did) ==
    [k \in DOMAIN strings |->
        [strings[k] EXCEPT !.extractionState = extraction_state(did)]]

\* ResetSourceState without the test of did_extract_values.
ResetSourceState_Always(strings, did) ==
    [k \in DOMAIN strings |->
        IF source_language \in DOMAIN strings[k].localizations
        THEN [strings[k] EXCEPT
                 !.localizations[source_language].state = "new"]
        ELSE strings[k]]

\* 2. Modification: the state of all source_language units becomes "new".
ResetSourceState(strings, did) ==
    IF did
    THEN [k \in DOMAIN strings |->
            IF source_language \in DOMAIN strings[k].localizations
            THEN [strings[k] EXCEPT
                     !.localizations[source_language].state = "new"]
            ELSE strings[k]]
    ELSE strings

\* StripKey without the del of line 300.
StripKey_NoDelete(strings, key) ==
    LET key_without_index == remove_index_prefix_from_key(key)
    IN  IF key = key_without_index
        THEN strings
        ELSE DictSet(strings, key_without_index, strings[key])

\* One iteration of the loop of the 3. modification.
StripKey(strings, key) ==
    LET key_without_index == remove_index_prefix_from_key(key)
    IN  IF key = key_without_index
        THEN strings
        ELSE DictDel(DictSet(strings, key_without_index, strings[key]), key)

RECURSIVE StripLoop(_, _)
\* The loop over list(strings.keys()): `keys` are the keys still to visit.
\* With at most one prefixed form per bare key the result is the same in
\* every order of the list.
StripLoop(strings, keys) ==
    IF keys = {} THEN strings
    ELSE LET key == CHOOSE k \in keys : TRUE
         IN  StripLoop(StripKey(strings, key), keys \ {key})

\* 3. Modification: remove indexes from keys.
StripIndexPrefixes(strings) == StripLoop(strings, DOMAIN strings)

PreSyncStrings(strings, did) ==
    StripIndexPrefixes(ResetSourceState(SetExtractionState(strings, did), did))


(***************************************************************************)
(* xcstringstool sync (syncstrings.py:305-310), by its contract: it        *)
(* updates or creates the source-locale units of the keys of the           *)
(* .stringsdata, marks the keys absent from it stale, and leaves the       *)
(* units of the other locales alone.                                       *)
(***************************************************************************)
\* The entry the tool creates for a key of the .stringsdata the catalog
\* lacks.
ToolCreatedEntry(state) ==
    [extractionState |-> state,
     localizations |->
        [l \in {source_language} |-> StringUnit("new", NewValue)]]

\* The tool on an entry whose key the .stringsdata holds: the source text
\* is taken over when the entry is extracted with its value, unless its
\* unit is left "translated".
ToolUpdatedEntry(info) ==
    LET locs == info.localizations
    IN  IF /\ info.extractionState = "extracted_with_value"
           /\ \/ source_language \notin DOMAIN locs
              \/ locs[source_language].state # "translated"
        THEN [info EXCEPT !.localizations =
                 [l \in (DOMAIN locs) \cup {source_language} |->
                     IF l = source_language
                     THEN StringUnit("new", NewValue)
                     ELSE locs[l]]]
        ELSE info

xcstringstool_sync(strings, items, state) ==
    [k \in (DOMAIN strings) \cup DeclaredKeys(items) |->
        IF k \notin DOMAIN strings THEN ToolCreatedEntry(state)
        ELSE IF k \in DeclaredKeys(items) THEN ToolUpdatedEntry(strings[k])
        ELSE [strings[k] EXCEPT !.extractionState = "stale"]]

(***************************************************************************)
(* update_xcstrings, after the tool (syncstrings.py:316-342).              *)
(***************************************************************************)
\* SetManual skipping the entries without extractionState.
SetManual_SkipMissing(strings) ==
    [k \in DOMAIN strings |->
        IF strings[k].extractionState \in {"stale", NoExtractionState}
        THEN strings[k]
        ELSE [strings[k] EXCEPT !.extractionState = "manual"]]

\* 1. Modification: every extractionState but "stale" becomes "manual".
SetManual(strings) ==
    [k \in DOMAIN strings |->
        IF strings[k].extractionState = "stale"
        THEN strings[k]
        ELSE [strings[k] EXCEPT !.extractionState = "manual"]]

\* KeySetsAgree asking only that every declared key is in the catalog.
KeySetsAgree_DeclaredOnly(strings, items) ==
    DeclaredKeys(items) \subseteq DOMAIN strings

\* The assertion of line 331.
KeySetsAgree(strings, items) == DOMAIN strings = DeclaredKeys(items)

\* One iteration of the loop of the 2. modification; reading a key the
\* object lacks raises KeyError.
ReindexItem(strings, item) ==
    IF item.key_with_index_prefix = None
    THEN [ok |-> TRUE, strings |-> strings]
    ELSE IF item.key \notin DOMAIN strings
    THEN [ok |-> FALSE, strings |-> strings]
    ELSE [ok |-> TRUE,
          strings |->
              DictDel(DictSet(strings, item.key_with_index_prefix,
                              strings[item.key]),
                      item.key)]

RECURSIVE ReindexLoop(_, _, _)
\* The loop over extracted_strings from position i on.
ReindexLoop(strings, items, i) ==
    IF i > Len(items) THEN [ok |-> TRUE, strings |-> strings]
    ELSE LET r == ReindexItem(strings, items[i])
         IN  IF r.ok THEN ReindexLoop(r.strings, items, i + 1) ELSE r

\* 2. Modification: add indexes back to keys.
AddIndexPrefixes(strings, items) == ReindexLoop(strings, items, 1)

(***************************************************************************)
(* The state machine.                                                      *)
(***************************************************************************)
Stopped == {"done", "failed_keys", "failed_reindex"}

\* The values the variables of main, get_translation and
\* get_localizable_strings_from_markdown hold while these are not running.
MainNotRunning ==
    /\ source_files = <<>>
    /\ source_index = 0
    /\ main_pc = "idle"

TranslationNotCalled ==
    /\ translation_call = <<>>
    /\ translation_result = <<>>

MarkdownNotCalled ==
    /\ md_string = <<>>
    /\ md_result = <<>>

\* The catalog update_xcstrings is normally called on.
NormalHeader == [exists |-> TRUE, version |-> "1.0",
                 sourceLanguage |-> source_language]

\* The values the variables of the other operations hold while these are
\* not running.
ProgressNotCalled ==
    /\ progress_call = <<>>
    /\ progress_result = <<>>

LinksNotCalled ==
    /\ link_string = <<>>
    /\ link_result = <<>>

IndentNotCalled ==
    /\ indent_call = <<>>
    /\ indent_result = <<>>

BuildNotRunning ==
    /\ build_loaded = EmptyDict
    /\ build_strings = EmptyDict

RestNotCalled ==
    /\ ProgressNotCalled
    /\ LinksNotCalled
    /\ IndentNotCalled
    /\ BuildNotRunning

otherVars == <<mainVars, translationVars, markdownVars, callVars, restVars>>

Init ==
    /\ xcstrings_file \in InitCatalogs
    /\ xcstrings_obj = EmptyDict
    /\ extracted_strings \in ItemLists
    /\ did_extract_values \in BOOLEAN
    /\ created_state \in {NoExtractionState, "extracted_with_value"}
    /\ pc = "idle"
    /\ pass = 0
    /\ before = xcstrings_file
    /\ catalog_header = NormalHeader
    /\ RestNotCalled
    /\ MainNotRunning
    /\ TranslationNotCalled
    /\ MarkdownNotCalled

\* update_xcstrings up to the write of line 303.
PreSync ==
    /\ pc \in {"idle"} \cup Stopped
    /\ pass < MaxPasses
    /\ Len(extracted_strings) > 0
    /\ before' = xcstrings_file
    /\ xcstrings_obj' = PreSyncStrings(xcstrings_file, did_extract_values)
    /\ xcstrings_file' = xcstrings_obj'
    /\ pass' = pass + 1
    /\ pc' = "tool"
    /\ UNCHANGED <<extracted_strings, did_extract_values, created_state>>
    /\ UNCHANGED otherVars

\* runclt returns: the tool has rewritten the file.
ToolSync ==
    /\ pc = "tool"
    /\ xcstrings_file' =
           xcstringstool_sync(xcstrings_file, extracted_strings, created_state)
    /\ pc' = "post"
    /\ UNCHANGED <<xcstrings_obj, extracted_strings, did_extract_values,
                   created_state, pass, before>>
    /\ UNCHANGED otherVars

\* ToolFails putting back the file as it was before the call.
ToolFails_RollsBack ==
    /\ pc = "tool"
    /\ pc' = "failed_tool"
    /\ xcstrings_file' = before
    /\ UNCHANGED <<xcstrings_obj, extracted_strings,
                   did_extract_values, created_state, pass, before>>
    /\ UNCHANGED otherVars

\* runclt asserts: the tool exited non-zero or wrote to stderr.
ToolFails ==
    /\ pc = "tool"
    /\ pc' = "failed_tool"
    /\ UNCHANGED <<xcstrings_file, xcstrings_obj, extracted_strings,
                   did_extract_values, created_state, pass, before>>
    /\ UNCHANGED otherVars

\* update_xcstrings from the read of line 316 to the write of line 342.
PostSync ==
    /\ pc = "post"
    /\ LET manual == SetManual(xcstrings_file)
           r == AddIndexPrefixes(manual, extracted_strings)
       IN  IF ~KeySetsAgree(manual, extracted_strings)
           THEN /\ pc' = "failed_keys"
                /\ xcstrings_obj' = manual
                /\ UNCHANGED xcstrings_file
           ELSE IF ~r.ok
           THEN /\ pc' = "failed_reindex"
                /\ xcstrings_obj' = r.strings
                /\ UNCHANGED xcstrings_file
           ELSE /\ pc' = "done"
                /\ xcstrings_obj' = r.strings
                /\ xcstrings_file' = r.strings
    /\ UNCHANGED <<extracted_strings, did_extract_values, created_state,
                   pass, before>>
    /\ UNCHANGED otherVars

Next == PreSync \/ ToolSync \/ ToolFails \/ PostSync

Spec == Init /\ [][Next]_vars


(***************************************************************************)
(* Properties of update_xcstrings.                                         *)
(***************************************************************************)
Declared == DeclaredKeys(extracted_strings)

\* The keys of `strings` that hold the entry of the bare key of `key`.
FormsOf(strings, key) ==
    {k \in DOMAIN strings :
        remove_index_prefix_from_key(k) = remove_index_prefix_from_key(key)}

\* A call of update_xcstrings has ended after the tool returned.
PassEnded == pc \in Stopped

\* C1: running update_xcstrings a second time with the same declarations
\* leaves the persisted catalog identical to the catalog after the first
\* run (`before` is the file as the first run left it).
C1_SecondRunIdentical ==
    (pass >= 2 /\ PassEnded) => xcstrings_file = before

\* C2: for every entry and every locale other than the source locale, the
\* unit after a pass is the unit before it: the entry of the same bare key
\* still holds that unit, also when the catalog held the bare key next to
\* an index-prefixed form of it.
C2_TranslationsPreserved ==
    pc # "idle" =>
        \A k \in DOMAIN before :
            \A l \in (DOMAIN before[k].localizations) \ {source_language} :
                \E k2 \in FormsOf(xcstrings_file, k) :
                    /\ l \in DOMAIN xcstrings_file[k2].localizations
                    /\ xcstrings_file[k2].localizations[l] =
                           before[k].localizations[l]

\* C3: every bare key with an entry before a pass still has an entry (under
\* the bare key or a prefixed form) at every later point of the pass, and
\* the catalog never holds fewer entries than before the pass.
C3_NoHardDeletion ==
    pc # "idle" =>
        /\ \A k \in DOMAIN before : FormsOf(xcstrings_file, k) # {}
        /\ Cardinality(DOMAIN xcstrings_file) >=
               Cardinality(DOMAIN before)

\* C4: when the catalog holds an entry for a key absent from the
\* declarations, which the tool marks stale, the pass completes
\* successfully and the persisted catalog holds that entry with
\* extractionState "stale".
C4_SoftDelete ==
    PassEnded =>
        \A k \in DOMAIN before :
            remove_index_prefix_from_key(k) \notin Declared =>
                /\ pc = "done"
                /\ \E k2 \in FormsOf(xcstrings_file, k) :
                       xcstrings_file[k2].extractionState = "stale"

\* C5: after the tool returned, a key set of the reloaded catalog that
\* differs from the declared key set makes the pass fail without the
\* post-sync write; with equal key sets the pass goes on to the re-indexing.
C5_IntegrityCheck ==
    [][pc = "post" =>
          IF DOMAIN xcstrings_file # Declared
          THEN pc' = "failed_keys" /\ xcstrings_file' = xcstrings_file
          ELSE pc' \in {"done", "failed_reindex"}]_vars

\* C5 witness: a pass stopped by the check, the tool's output still on disk.
C5_Witness ==
    /\ pc = "failed_keys"
    /\ DOMAIN xcstrings_file # Declared
    /\ Declared \ DOMAIN before # {}

\* C6: a pass that completes leaves every entry "manual" or "stale": an
\* entry the tool left "stale" stays "stale", every other entry, also one
\* without extractionState, becomes "manual", and each persisted entry is
\* one the tool left.
C6_ManualOrStale ==
    [][(pc = "post" /\ pc' = "done") =>
          \A k2 \in DOMAIN xcstrings_file' :
              LET k == remove_index_prefix_from_key(k2)
              IN  /\ k \in DOMAIN xcstrings_file
                  /\ xcstrings_file'[k2].extractionState =
                         IF xcstrings_file[k].extractionState = "stale"
                         THEN "stale" ELSE "manual"]_vars

\* C6 witness: a completed pass whose catalog holds an entry the tool
\* created without extractionState.
C6_Witness ==
    /\ pc = "done"
    /\ created_state = NoExtractionState
    /\ \E k \in DOMAIN xcstrings_file :
           /\ FormsOf(before, k) = {}
           /\ xcstrings_file[k].extractionState = "manual"

\* C7: when the tool is invoked no key of the persisted catalog has an
\* index prefix, and the file is the stripped object.
C7_BareKeysAtTool ==
    pc = "tool" =>
        /\ \A k \in DOMAIN xcstrings_file :
               remove_index_prefix_from_key(k) = k
        /\ xcstrings_file = xcstrings_obj

\* C7 witness: the tool is invoked on a catalog that held a prefixed key.
C7_Witness ==
    /\ pc = "tool"
    /\ \E k \in DOMAIN before : HasIndexPrefix(k)
    /\ xcstrings_file # EmptyDict

\* C8: after a completed pass the entry of a declaration with a
\* key_with_index_prefix is under that key and not under the bare key, and
\* the entry of a declaration without one is under the bare key.
C8_Reindexed ==
    pc = "done" =>
        \A i \in 1..Len(extracted_strings) :
            LET item == extracted_strings[i]
                prefixed == item.key_with_index_prefix
            IN  IF prefixed = None
                THEN item.key \in DOMAIN xcstrings_file
                ELSE /\ prefixed \in DOMAIN xcstrings_file
                     /\ prefixed # item.key =>
                            item.key \notin DOMAIN xcstrings_file

\* C9: stripping the prefixes of a catalog the re-indexing produced yields
\* exactly the declared bare keys, each with the entry its prefixed key
\* held; removing an applied prefix gives the key back, and removing a
\* prefix twice is removing it once.
C9_RoundTrip ==
    /\ pc = "done" =>
           LET stripped == StripIndexPrefixes(xcstrings_file)
           IN  /\ DOMAIN stripped = Declared
               /\ \A k \in DOMAIN xcstrings_file :
                      stripped[remove_index_prefix_from_key(k)] =
                          xcstrings_file[k]
    /\ \A k \in BareKeys, n \in IndexRange :
           remove_index_prefix_from_key(ApplyIndexPrefix(k, n)) = k
    /\ \A k \in CatalogKeys :
           remove_index_prefix_from_key(remove_index_prefix_from_key(k)) =
               remove_index_prefix_from_key(k)

\* C10: when the tool is invoked every declared key present in the catalog
\* has extractionState "extracted_with_value" if the pass carries the
\* source text, and "extracted" otherwise.
C10_PreSyncState ==
    pc = "tool" =>
        \A k \in (DOMAIN xcstrings_file) \cap Declared :
            xcstrings_file[k].extractionState =
                IF did_extract_values THEN "extracted_with_value"
                ELSE "extracted"

\* C10 witness: the tool is invoked on a declared entry that was "manual"
\* before the pass.
C10_Witness ==
    /\ pc = "tool"
    /\ \E k \in (DOMAIN xcstrings_file) \cap Declared :
           \E k0 \in FormsOf(before, k) :
               before[k0].extractionState = "manual"


\* The localizations `after`, compared with `was`: the same locales and
\* values, and the same states but for the source unit, which is "new" when
\* `reset`.
SameUnitsBut(after, was, reset) ==
    /\ DOMAIN after = DOMAIN was
    /\ \A l \in DOMAIN was :
           /\ after[l].value = was[l].value
           /\ after[l].state =
                  IF reset /\ l = source_language THEN "new" ELSE was[l].state

C12_ToolFailureNoRollback ==
    pc = "failed_tool" =>
        /\ xcstrings_file = PreSyncStrings(before, did_extract_values)
        /\ xcstrings_file = xcstrings_obj
        /\ \A k \in DOMAIN xcstrings_file :
               /\ remove_index_prefix_from_key(k) = k
               /\ xcstrings_file[k].extractionState =
                      extraction_state(did_extract_values)
        /\ ~ENABLED PostSync

\* C12 witness: the tool failed on a catalog that held a prefixed key and
\* "manual" entries, which the file no longer holds.
C12_Witness ==
    /\ pc = "failed_tool"
    /\ xcstrings_file # before
    /\ \E k \in DOMAIN before : HasIndexPrefix(k)

\* The positions of extracted_strings that declare a key declared before.
Repeats ==
    {j \in 1..Len(extracted_strings) :
        \E i \in 1..(j - 1) :
            extracted_strings[i].key = extracted_strings[j].key}

\* C15: a pass driven by a list that declares a key more than once (no
\* key_with_index_prefix being the bare key), on a catalog whose keys are
\* all declared, completes, and the entry is under the
\* key_with_index_prefix of the first occurrence (the bare key when it has
\* none).
C15_DuplicatesComplete ==
    (/\ PassEnded
     /\ Repeats # {}
     /\ \A i \in 1..Len(extracted_strings) :
            extracted_strings[i].key_with_index_prefix #
                extracted_strings[i].key
     /\ \A k \in DOMAIN before :
            remove_index_prefix_from_key(k) \in Declared) =>
        /\ pc = "done"
        /\ \A j \in Repeats :
               LET i == CHOOSE n \in 1..Len(extracted_strings) :
                            /\ extracted_strings[n].key =
                                   extracted_strings[j].key
                            /\ n \notin Repeats
                   first == extracted_strings[i]
               IN  (IF first.key_with_index_prefix = None THEN first.key
                    ELSE first.key_with_index_prefix)
                       \in DOMAIN xcstrings_file


(***************************************************************************)
(* main (syncstrings.py:70-219), branch 'mac-mouse-fix': one call of       *)
(* update_xcstrings per entry of main_repo['source_paths'].                *)
(***************************************************************************)
\* The entries of main_repo['source_paths'].
NumSources == 2

\* update_xcstrings from its first line to its return or to the statement
\* that raises: whether it raised and what the file at xcstrings_path holds
\* afterwards.
update_xcstrings(exists, file, items, did, created, tool_fails) ==
    LET presync == PreSyncStrings(file, did)
        synced == xcstringstool_sync(presync, items, created)
        manual == SetManual(synced)
        r == AddIndexPrefixes(manual, items)
    IN  IF Len(items) = 0 \/ ~exists
        THEN [raised |-> TRUE, strings |-> file]
        ELSE IF tool_fails
        THEN [raised |-> TRUE, strings |-> presync]
        ELSE IF ~KeySetsAgree(manual, items) \/ ~r.ok
        THEN [raised |-> TRUE, strings |-> synced]
        ELSE [raised |-> FALSE, strings |-> r.strings]

\* What main finds for one source path: whether
\* get_localizable_strings_from_markdown returns, the declarations it
\* returns, whether the .xcstrings file exists and what it holds, and
\* whether the tool will fail on it.
SourceCatalogs ==
    {EmptyDict} \cup
    {[k \in {key} |->
         [extractionState |-> "manual",
          localizations |->
              [l \in {source_language, translation_locale} |-> InitUnit(l)]]] :
     key \in {<<"a">>, ApplyIndexPrefix(<<"b">>, 0)}}

SourceFaults == {"none", "parse", "missing", "tool"}

SourceFiles ==
    [fault : SourceFaults,
     extracted : {<<item>> : item \in ItemsAt(1)},
     strings : SourceCatalogs]

\* Lines 171-213: the content of the source file is read and its
\* declarations are extracted; an assertion of the extraction ends main.
MainExtract ==
    /\ main_pc = "extract"
    /\ source_index < NumSources
    /\ source_index' = source_index + 1
    /\ main_pc' = IF source_files[source_index'].fault = "parse"
                  THEN "raised" ELSE "update"
    /\ UNCHANGED <<source_files, syncVars, translationVars, markdownVars>>
    /\ UNCHANGED <<callVars, restVars>>

\* Line 216: update_xcstrings on the catalog of the source file; what it
\* raises ends main, otherwise the loop goes on or main returns.
MainUpdate ==
    /\ main_pc = "update"
    /\ \E created \in {NoExtractionState, "extracted_with_value"} :
          LET f == source_files[source_index]
              r == update_xcstrings(f.fault # "missing", f.strings, f.extracted,
                                    FALSE, created, f.fault = "tool")
          IN  /\ source_files' =
                     [source_files EXCEPT ![source_index].strings = r.strings]
              /\ main_pc' = IF r.raised THEN "raised"
                            ELSE IF source_index = NumSources THEN "returned"
                            ELSE "extract"
    /\ UNCHANGED <<source_index, syncVars, translationVars, markdownVars>>
    /\ UNCHANGED <<callVars, restVars>>

SyncNotRunning ==
    /\ xcstrings_file = EmptyDict
    /\ xcstrings_obj = EmptyDict
    /\ extracted_strings = <<>>
    /\ did_extract_values = FALSE
    /\ created_state = NoExtractionState
    /\ pc = "idle"
    /\ pass = 0
    /\ before = EmptyDict
    /\ catalog_header = NormalHeader

MainInit ==
    /\ source_files \in [1..NumSources -> SourceFiles]
    /\ source_index = 0
    /\ main_pc = "extract"
    /\ SyncNotRunning
    /\ RestNotCalled
    /\ TranslationNotCalled
    /\ MarkdownNotCalled

MainNext == MainExtract \/ MainUpdate

SpecMain == MainInit /\ [][MainNext]_vars

\* C13: when main has ended, by returning or by an exception, every source
\* file of the batch has been attempted: a failure on one source file does
\* not keep main from reconciling the ones after it.
C13_BatchIsolation ==
    main_pc \in {"returned", "raised"} =>
        \A i \in 1..NumSources : i <= source_index


(***************************************************************************)
(* get_translation (mflocales.py:209-248).                                 *)
(***************************************************************************)
MaxLocales == 2    \* most locales one entry of the catalog names

\* The locales of the catalog and the ones get_translation is asked for, as
\* .xcstrings files write them.
CatalogLocales == {"en", "de", "pt-BR"}

PreferredLocales == CatalogLocales \cup {"fr"}

NoLocale == "None"

TranslationKey == "greet.hello"

TextOf(locale) ==
    CASE locale = "en" -> "Hello"
      [] locale = "de" -> "Hallo"
      [] OTHER -> "Ola"

\* str.lower, str.split('_') and babel's LOCALE_ALIASES on the locales above.
Lower(locale) ==
    CASE locale = "pt-BR" -> "pt-br"
      [] locale = "de_CH" -> "de_ch"
      [] locale = "de_DE" -> "de_de"
      [] locale = "en_US" -> "en_us"
      [] locale = "fr_FR" -> "fr_fr"
      [] OTHER -> locale

SplitUnderscore(locale) ==
    CASE locale = "de_CH" -> <<"de", "CH">>
      [] locale = "de_DE" -> <<"de", "DE">>
      [] locale = "en_US" -> <<"en", "US">>
      [] locale = "fr_FR" -> <<"fr", "FR">>
      [] OTHER -> <<locale>>

LOCALE_ALIASES(lowered) ==
    CASE lowered = "de" -> "de_DE"
      [] lowered = "en" -> "en_US"
      [] lowered = "fr" -> "fr_FR"
      [] OTHER -> NoLocale

\* A dict in insertion order is a sequence of [locale, object] pairs.
DictKeys(dict) == [i \in 1..Len(dict) |-> dict[i].locale]

KeySet(dict) == {dict[i].locale : i \in 1..Len(dict)}

DictGet(dict, locale) ==
    dict[CHOOSE i \in 1..Len(dict) : dict[i].locale = locale].object

\* What babel.negotiate_locale answers for one preferred locale: the locale
\* itself when its lower case is available, else its alias, else its first
\* part, else nothing.
NegotiateOne(locale, available) ==
    LET alias == LOCALE_ALIASES(Lower(locale))
        parts == SplitUnderscore(locale)
    IN  IF Lower(locale) \in available THEN locale
        ELSE IF alias # NoLocale /\ Lower(alias) \in available THEN alias
        ELSE IF Len(parts) > 1 /\ Lower(parts[1]) \in available THEN parts[1]
        ELSE NoLocale

\* babel.negotiate_locale(preferred, available): the answer for the
\* leftmost preferred locale that has one.
negotiate_locale(preferred, available) ==
    LET lowered == {Lower(available[i]) : i \in 1..Len(available)}
        hits == {i \in 1..Len(preferred) :
                    NegotiateOne(preferred[i], lowered) # NoLocale}
    IN  IF hits = {} THEN NoLocale
        ELSE NegotiateOne(preferred[CHOOSE i \in hits : \A j \in hits : i <= j],
                          lowered)

Raised == [status |-> "raised", translation |-> "", translation_locale |-> ""]

Returned(translation, locale) ==
    [status |-> "returned", translation |-> translation,
     translation_locale |-> locale]

get_translation(xcstrings, key, preferred_locale, fall_back_to_next_best_language) ==
    IF xcstrings.version # "1.0" THEN Raised
    ELSE IF key \notin DOMAIN xcstrings.strings THEN Raised
    ELSE IF "localizations" \notin DOMAIN xcstrings.strings[key] THEN Raised
    ELSE
    LET source_locale == xcstrings.sourceLanguage
        localizations == xcstrings.strings[key].localizations
        available_locales == DictKeys(localizations)
        preferred_locales ==
            <<preferred_locale, source_locale>> \o available_locales
        negotiated == negotiate_locale(preferred_locales, available_locales)
    IN  IF fall_back_to_next_best_language
        THEN IF negotiated \notin KeySet(localizations) THEN Raised
             ELSE IF "stringUnit" \notin DOMAIN DictGet(localizations, negotiated)
             THEN Raised
             ELSE Returned(DictGet(localizations, negotiated).stringUnit.value,
                           negotiated)
        ELSE IF preferred_locale \in KeySet(localizations)
                /\ "stringUnit" \in DOMAIN DictGet(localizations, preferred_locale)
             THEN Returned(DictGet(localizations, preferred_locale).stringUnit.value,
                           preferred_locale)
             ELSE Returned("", preferred_locale)

\* The objects a locale maps to: a string unit, or variations without one.
LocalizationObjects(locale) ==
    {[stringUnit |-> StringUnit("translated", TextOf(locale))],
     [variations |-> "plural"]}

RECURSIVE LocalizationDicts(_)

\* The dicts of at most n locales, in every insertion order.
LocalizationDicts(n) ==
    IF n = 0 THEN {<<>>}
    ELSE LET shorter == LocalizationDicts(n - 1)
         IN  shorter \cup
             UNION {UNION {{Append(d, [locale |-> l, object |-> o]) :
                               o \in LocalizationObjects(l)} :
                           l \in CatalogLocales \ KeySet(d)} :
                    d \in {x \in shorter : Len(x) = n - 1}}

\* The entries of the catalog: with a 'localizations' field or, as the
\* catalog holds a key nobody has translated, without one.
TranslationEntries ==
    {[extractionState |-> "manual"]} \cup
    {[extractionState |-> "manual", localizations |-> d] :
        d \in LocalizationDicts(MaxLocales)}

TranslationCatalogs ==
    {[version |-> v, sourceLanguage |-> source_language, strings |-> strings] :
        v \in {"1.0", "1.1"},
        strings \in {EmptyDict} \cup
                    {[k \in {TranslationKey} |-> e] : e \in TranslationEntries}}

TranslationCalls ==
    [xcstrings : TranslationCatalogs,
     key : {TranslationKey},
     preferred_locale : PreferredLocales,
     fall_back_to_next_best_language : BOOLEAN]

Called == [status |-> "called", translation |-> "", translation_locale |-> ""]

TranslationInit ==
    /\ translation_call \in TranslationCalls
    /\ translation_result = Called
    /\ SyncNotRunning
    /\ RestNotCalled
    /\ MainNotRunning
    /\ MarkdownNotCalled

GetTranslation ==
    /\ translation_result = Called
    /\ translation_result' =
           get_translation(translation_call.xcstrings, translation_call.key,
                           translation_call.preferred_locale,
                           translation_call.fall_back_to_next_best_language)
    /\ UNCHANGED <<translation_call, syncVars, mainVars, markdownVars>>
    /\ UNCHANGED <<callVars, restVars>>

SpecTranslation == TranslationInit /\ [][GetTranslation]_vars

\* The call of get_translation has ended, on a catalog of version '1.0'
\* that holds the key.
TranslationEnded ==
    /\ translation_result # Called
    /\ translation_call.xcstrings.version = "1.0"
    /\ translation_call.key \in DOMAIN translation_call.xcstrings.strings

CalledEntry == translation_call.xcstrings.strings[translation_call.key]

\* The localizations of the called key, none when the entry has no field.
CalledLocalizations ==
    IF "localizations" \in DOMAIN CalledEntry
    THEN CalledEntry.localizations ELSE <<>>

\* The locales that hold a unit for the called key.
Holders ==
    {l \in KeySet(CalledLocalizations) :
        "stringUnit" \in DOMAIN DictGet(CalledLocalizations, l)}

\* The first locale that holds a unit, in the order preferred locale, source
\* locale, the entry's locales.
FirstHolder ==
    LET order == <<translation_call.preferred_locale, source_language>>
                     \o DictKeys(CalledLocalizations)
        first == CHOOSE i \in 1..Len(order) :
                     /\ order[i] \in Holders
                     /\ \A j \in 1..(i - 1) : order[j] \notin Holders
    IN  order[first]

\* C18: with fallback, for a key with at least one unit, get_translation
\* returns the text and the locale of the first locale that holds a unit, in
\* the order preferred locale, source locale, the entry's other locales.
C18_FallbackPriority ==
    (/\ TranslationEnded
     /\ translation_call.fall_back_to_next_best_language
     /\ Holders # {}) =>
        /\ translation_result.status = "returned"
        /\ translation_result.translation_locale = FirstHolder
        /\ translation_result.translation =
               DictGet(CalledLocalizations, FirstHolder).stringUnit.value

\* C19: without fallback, for a key of the catalog, get_translation returns
\* the text of the preferred locale's unit, or '' when there is none (also
\* when the entry holds no unit at all), with the preferred locale.
C19_NoFallback ==
    (/\ TranslationEnded
     /\ ~translation_call.fall_back_to_next_best_language) =>
        /\ translation_result.status = "returned"
        /\ translation_result.translation_locale =
               translation_call.preferred_locale
        /\ translation_result.translation =
               IF translation_call.preferred_locale \in Holders
               THEN DictGet(CalledLocalizations,
                            translation_call.preferred_locale).stringUnit.value
               ELSE ""

\* C20: on a catalog of version '1.0' and a key it holds, get_translation
\* raises exactly when fallback is allowed and no locale holds a unit for
\* the key.
C20_FailsOnlyWithoutUnits ==
    TranslationEnded =>
        (translation_result.status = "raised" <=>
            (translation_call.fall_back_to_next_best_language /\ Holders = {}))


(***************************************************************************)
(* get_localizable_strings_from_markdown (mflocales.py:526-673).           *)
(*                                                                         *)
(* md_string is a sequence of characters.  A stretch of the document that  *)
(* block_regex matches is one element of the sequence, named in Blocks,    *)
(* with the four groups of the match; it spans several lines.              *)
(***************************************************************************)
MaxSegments == 2   \* most segments a document is put together from

Blocks == {"block key", "block if", "block if spaced", "block braces"}

\* The groups (condition, key, value, comment) of a block; the condition is
\* None when the block has no line of if.
BlockGroups(block) ==
    [condition |-> CASE block = "block if" -> <<"c", "o", "n", "d">>
                     [] block = "block if spaced" -> <<"a", " ", "b">>
                     [] OTHER -> None,
     key |-> <<"b", "k">>,
     value |-> IF block = "block braces" THEN <<"{", "{", "b", "v">>
               ELSE <<"b", "v">>,
     comment |-> <<"b", "c">>]

Whitespace == {" ", "\t", "\n"}

\* What '.' of inline_regex matches: every character but the newline, so
\* nothing of a block either.
Dot(x) == x # "\n" /\ x \notin Blocks

\* The operator 'in' of Python on strings.
Contains(s, sub) ==
    \E i \in 1..(Len(s) - Len(sub) + 1) : SubSeq(s, i, i + Len(sub) - 1) = sub

RECURSIVE LStrip(_)

LStrip(s) ==
    IF Len(s) > 0 /\ s[1] \in Whitespace THEN LStrip(Tail(s)) ELSE s

RECURSIVE RStrip(_)

RStrip(s) ==
    IF Len(s) > 0 /\ s[Len(s)] \in Whitespace
    THEN RStrip(SubSeq(s, 1, Len(s) - 1)) ELSE s

\* Strip that leaves the trailing whitespace.
Strip_Leading(s) == LStrip(s)

\* str.strip().
Strip(s) == RStrip(LStrip(s))

RECURSIVE FirstPair(_, _, _)

\* The first position from i on where the character ch stands twice, with
\* only '.' characters from i up to it; 0 when there is none.  It is where
\* a lazy group (.*?) followed by the delimiter ends.
FirstPair(md, i, ch) ==
    IF i + 1 > Len(md) THEN 0
    ELSE IF md[i] = ch /\ md[i + 1] = ch THEN i
    ELSE IF ~Dot(md[i]) THEN 0
    ELSE FirstPair(md, i + 1, ch)

NoMatch == [start |-> 0]

\* inline_regex tried at position p: \{\{(.*?)\|\|(.*?)\|\|(.*?)\}\}
InlineMatchAt(md, p) ==
    LET j1 == FirstPair(md, p + 2, "|")
        j2 == IF j1 = 0 THEN 0 ELSE FirstPair(md, j1 + 2, "|")
        j3 == IF j2 = 0 THEN 0 ELSE FirstPair(md, j2 + 2, "}")
    IN  IF p + 1 <= Len(md) /\ md[p] = "{" /\ md[p + 1] = "{" /\ j3 # 0
        THEN [start |-> p, end |-> j3 + 1, syntax |-> "inline",
              condition |-> None,
              value |-> SubSeq(md, p + 2, j1 - 1),
              key |-> SubSeq(md, j1 + 2, j2 - 1),
              comment |-> SubSeq(md, j2 + 2, j3 - 1)]
        ELSE NoMatch

RECURSIVE InlineFrom(_, _)

\* re.finditer(inline_regex, md_string) from position p on: the matches
\* from left to right, none overlapping another.
InlineFrom(md, p) ==
    IF p > Len(md) THEN <<>>
    ELSE LET m == InlineMatchAt(md, p)
         IN  IF m.start = 0 THEN InlineFrom(md, p + 1)
             ELSE <<m>> \o InlineFrom(md, m.end + 1)

inline_matches(md) == InlineFrom(md, 1)

RECURSIVE BlockFrom(_, _)

\* re.finditer(block_regex, md_string, re.DOTALL | re.MULTILINE).
BlockFrom(md, p) ==
    IF p > Len(md) THEN <<>>
    ELSE IF md[p] \in Blocks
    THEN LET g == BlockGroups(md[p])
         IN  <<[start |-> p, end |-> p, syntax |-> "block",
                condition |-> g.condition, value |-> g.value,
                key |-> g.key, comment |-> g.comment]>> \o BlockFrom(md, p + 1)
    ELSE BlockFrom(md, p + 1)

block_matches(md) == BlockFrom(md, 1)

\* Line 630.
all_matches(md) == inline_matches(md) \o block_matches(md)

Reserved == {<<"}", "}">>, <<"|", "|">>, <<"{", "{">>}

\* Validate without the assertion on the condition.
Validate_NoCondition(m) ==
    /\ ~Contains(m.key, <<" ">>)
    /\ Len(m.key) > 0
    /\ Len(m.value) > 0
    /\ \A st \in {m.condition, m.value, m.key, m.comment} :
           \A r \in Reserved : ~Contains(st, r)

\* The assertions of lines 652-659 on one match.
Validate(m) ==
    /\ ~Contains(m.condition, <<" ">>)
    /\ ~Contains(m.key, <<" ">>)
    /\ Len(m.key) > 0
    /\ Len(m.value) > 0
    /\ \A st \in {m.condition, m.value, m.key, m.comment} :
           \A r \in Reserved : ~Contains(st, r)

\* Lines 665-669.
LocalizedStringData(md, m) ==
    [condition |-> m.condition,
     key |-> Strip(m.key),
     value |-> m.value,
     comment |-> Strip(m.comment),
     full_match |-> SubSeq(md, m.start, m.end)]

get_localizable_strings_from_markdown(md) ==
    LET matches == all_matches(md)
    IN  IF \E i \in 1..Len(matches) : ~Validate(matches[i])
        THEN [status |-> "raised", result |-> <<>>]
        ELSE [status |-> "returned",
              result |-> [i \in 1..Len(matches) |->
                             LocalizedStringData(md, matches[i])]]

\* The documents: up to MaxSegments segments, each an inline declaration
\* {{value||key||comment}}, a block, or text between declarations.
InlineValues == {<<>>, <<"v">>, <<" ", "v">>}

InlineKeys == {<<>>, <<"k">>, <<"a", " ", "b">>, <<"\t", "k">>}

InlineComments == {<<>>, <<"c">>, <<" ", "c", " ">>}

Inline(value, key, comment) ==
    <<"{", "{">> \o value \o <<"|", "|">> \o key \o <<"|", "|">>
        \o comment \o <<"}", "}">>

Segments ==
    {Inline(v, k, c) : v \in InlineValues, k \in InlineKeys, c \in InlineComments}
    \cup {Inline(<<"v">>, <<"k">>, <<"c", "|", "|", "d">>)}
    \cup {<<b>> : b \in Blocks}
    \cup {<<"x">>, <<"\n">>, <<"{">>}

RECURSIVE Documents(_)

Documents(n) ==
    IF n = 0 THEN {<<>>}
    ELSE LET shorter == Documents(n - 1)
         IN  shorter \cup {d \o seg : d \in shorter, seg \in Segments}

MarkdownCalled == [status |-> "called", result |-> <<>>]

MarkdownInit ==
    /\ md_string \in Documents(MaxSegments)
    /\ md_result = MarkdownCalled
    /\ SyncNotRunning
    /\ RestNotCalled
    /\ MainNotRunning
    /\ TranslationNotCalled

GetLocalizableStrings ==
    /\ md_result = MarkdownCalled
    /\ md_result' = get_localizable_strings_from_markdown(md_string)
    /\ UNCHANGED <<md_string, syncVars, mainVars, translationVars>>
    /\ UNCHANGED <<callVars, restVars>>

SpecMarkdown == MarkdownInit /\ [][GetLocalizableStrings]_vars

(***************************************************************************)
(* Properties of get_localizable_strings_from_markdown.                    *)
(***************************************************************************)
MarkdownEnded == md_result # MarkdownCalled

\* The first position of md_string where `sub` stands.
FirstOccurrence(sub) ==
    CHOOSE q \in 1..Len(md_string) :
        /\ SubSeq(md_string, q, q + Len(sub) - 1) = sub
        /\ \A r \in 1..(q - 1) : SubSeq(md_string, r, r + Len(sub) - 1) # sub

\* C14: the declarations are returned in the order of their first
\* appearance in the document, whichever of the two syntaxes each uses.
C14_ExtractionOrder ==
    md_result.status = "returned" =>
        \A i \in 1..Len(md_result.result), j \in 1..Len(md_result.result) :
            i < j => FirstOccurrence(md_result.result[i].full_match)
                        <= FirstOccurrence(md_result.result[j].full_match)

NoReserved(st) == \A r \in Reserved : ~Contains(st, r)

\* A matched declaration the parse validation is to reject: whitespace in
\* the key, an empty key or value, or a reserved substring in a part.
Rejected(m) ==
    \/ \E i \in 1..Len(m.key) : m.key[i] \in Whitespace
    \/ Len(m.key) = 0
    \/ Len(m.value) = 0
    \/ \E st \in {m.condition, m.value, m.key, m.comment} : ~NoReserved(st)

\* C16: extraction fails, returning no declaration, exactly when some
\* matched declaration has whitespace in its key, an empty key, an empty
\* value, or a reserved substring in its condition, value, key or comment.
C16_ParseValidation ==
    MarkdownEnded =>
        LET matches == all_matches(md_string)
        IN  /\ md_result.status = "raised" <=>
                   \E i \in 1..Len(matches) : Rejected(matches[i])
            /\ md_result.status = "raised" => md_result.result = <<>>

HasSpace(st) == \E i \in 1..Len(st) : st[i] = " "

\* A matched declaration with a space in its key or condition, an empty key
\* or value, or a reserved substring in a part.
RejectedForSpace(m) ==
    \/ HasSpace(m.key)
    \/ HasSpace(m.condition)
    \/ Len(m.key) = 0
    \/ Len(m.value) = 0
    \/ \E st \in {m.condition, m.value, m.key, m.comment} : ~NoReserved(st)

\* C16, amended: extraction fails, returning no declaration, exactly when
\* some matched declaration has a space character in its key or in its
\* condition, an empty key, an empty value, or a reserved substring in its
\* condition, value, key or comment.
C16_SpaceValidation ==
    MarkdownEnded =>
        LET matches == all_matches(md_string)
        IN  /\ md_result.status = "raised" <=>
                   \E i \in 1..Len(matches) : RejectedForSpace(matches[i])
            /\ md_result.status = "raised" => md_result.result = <<>>
            /\ md_result.status = "returned" =>
                   Len(md_result.result) = Len(matches)

\* Extraction has failed on a condition with a space, and has succeeded on
\* a key with a tab.
C16_Witness ==
    LET matches == all_matches(md_string)
    IN  \/ /\ md_result.status = "raised"
           /\ \E i \in 1..Len(matches) : HasSpace(matches[i].condition)
           /\ \A i \in 1..Len(matches) : ~Rejected(matches[i])
        \/ /\ md_result.status = "returned"
           /\ \E i \in 1..Len(matches) : matches[i].key = <<"\t", "k">>
           /\ \E i \in 1..Len(matches) : matches[i].syntax = "block"

\* The positions of md_string where the character ch stands twice.
Pairs(ch) ==
    {i \in 1..(Len(md_string) - 1) : md_string[i] = ch /\ md_string[i + 1] = ch}

\* The inline occurrences {{v||k||c}} of md_string, each on one line:
\* the positions of its four delimiters.
Occurrences ==
    {o \in Pairs("{") \X Pairs("|") \X Pairs("|") \X Pairs("}") :
        /\ o[1] + 2 <= o[2]
        /\ o[2] + 2 <= o[3]
        /\ o[3] + 2 <= o[4]
        /\ \A i \in o[1]..(o[4] + 1) : Dot(md_string[i])}

OccurrenceText(o) == SubSeq(md_string, o[1], o[4] + 1)

OccurrenceValue(o) == SubSeq(md_string, o[1] + 2, o[2] - 1)

OccurrenceKey(o) == SubSeq(md_string, o[2] + 2, o[3] - 1)

OccurrenceComment(o) == SubSeq(md_string, o[3] + 2, o[4] - 1)

NoDeclaration == Occurrences = {} /\ \A i \in 1..Len(md_string) : md_string[i] \notin Blocks

IsStripped(t, s) ==
    /\ (Len(t) > 0 => t[1] \notin Whitespace /\ t[Len(t)] \notin Whitespace)
    /\ \E a \in 0..Len(s) :
           /\ SubSeq(s, a + 1, a + Len(t)) = t
           /\ a + Len(t) <= Len(s)
           /\ \A i \in (1..a) \cup ((a + Len(t) + 1)..Len(s)) :
                  s[i] \in Whitespace

Delimiters == {"{", "|", "}"}

\* An occurrence no other reading of the text competes with: none of the
\* characters of the delimiters in its parts or right before it.
Plain(o) ==
    /\ \A i \in ((o[1] + 2)..(o[2] - 1)) \cup ((o[2] + 2)..(o[3] - 1))
                    \cup ((o[3] + 2)..(o[4] - 1)) :
           md_string[i] \notin Delimiters
    /\ o[1] > 1 => md_string[o[1] - 1] # "{"

CatalogVersions == {"1.0", "1.1"}

Headers == [exists : BOOLEAN, version : CatalogVersions,
            sourceLanguage : {source_language, translation_locale}]

\* CallFault without the assertion of line 261.
CallFault_NoSourceLanguage(items, header) ==
    IF Len(items) = 0 THEN "extracted_strings"
    ELSE IF ~header.exists THEN "exists"
    ELSE "none"

\* The assertion of lines 227, 230 and 261 that fails, in this order.  The
\* 'version' of the catalog is never read.
CallFault(items, header) ==
    IF Len(items) = 0 THEN "extracted_strings"
    ELSE IF ~header.exists THEN "exists"
    ELSE IF header.sourceLanguage # "en" THEN "sourceLanguage"
    ELSE "none"

\* The catalogs update_xcstrings is called on here: one entry is enough for
\* the write of line 303 to show.
CallCatalogs == {c \in InitCatalogs : Cardinality(DOMAIN c) <= 1}

CallInit ==
    /\ xcstrings_file \in CallCatalogs
    /\ xcstrings_obj = EmptyDict
    /\ extracted_strings \in ItemLists \cup {<<>>}
    /\ did_extract_values \in BOOLEAN
    /\ created_state = NoExtractionState
    /\ pc = "called"
    /\ pass = 0
    /\ before = xcstrings_file
    /\ catalog_header \in Headers
    /\ MainNotRunning
    /\ TranslationNotCalled
    /\ MarkdownNotCalled
    /\ RestNotCalled

\* update_xcstrings from its call up to the write of line 303.
CallPreSync ==
    /\ pc = "called"
    /\ IF CallFault(extracted_strings, catalog_header) # "none"
       THEN /\ pc' = "raised"
            /\ UNCHANGED <<xcstrings_file, xcstrings_obj, pass, before>>
       ELSE /\ before' = xcstrings_file
            /\ xcstrings_obj' =
                   PreSyncStrings(xcstrings_file, did_extract_values)
            /\ xcstrings_file' = xcstrings_obj'
            /\ pass' = pass + 1
            /\ pc' = "tool"
    /\ UNCHANGED <<extracted_strings, did_extract_values, created_state>>
    /\ UNCHANGED otherVars

CallNext == CallPreSync \/ ToolSync \/ ToolFails \/ PostSync

SpecCall == CallInit /\ [][CallNext]_vars

\* C21: update_xcstrings does not complete, and does not modify the
\* catalog, when the catalog's version is not '1.0'.
C21_VersionGate ==
    catalog_header.version # "1.0" =>
        /\ pc # "done"
        /\ xcstrings_file = before

\* The call breaks a precondition of update_xcstrings.
BadCall ==
    \/ Len(extracted_strings) = 0
    \/ ~catalog_header.exists
    \/ catalog_header.sourceLanguage # "en"

\* C30: a call with no declarations, with a catalog that does not exist or
\* with a catalog whose sourceLanguage is not 'en' never reaches the write
\* of line 303 or the tool, and the file stays as it was.
C30_PreconditionsFirst ==
    BadCall =>
        /\ pc \in {"called", "raised"}
        /\ pass = 0
        /\ xcstrings_file = before
        /\ xcstrings_obj = EmptyDict

\* A call on a catalog of another source language has raised, while the
\* pre-sync write would have changed the file.
C30_Witness ==
    /\ pc = "raised"
    /\ Len(extracted_strings) > 0
    /\ catalog_header.exists
    /\ catalog_header.sourceLanguage # "en"
    /\ PreSyncStrings(xcstrings_file, did_extract_values) # xcstrings_file

(***************************************************************************)
(* get_localization_progress (mflocales.py:144-207).  A catalog is its     *)
(* "strings": a function from keys to entries, iterated in the order of    *)
(* ProgressKeys.  A field a dict may lack is a field the record may lack.  *)
(***************************************************************************)
MaxCatalogs == 2

ProgressLocales == {"de", "fr"}

ProgressKeys == <<"k1", "k2", "k3", "k4", "k5", "k6", "k7", "k8", "k9", "k10">>

\* Keys of the catalogs drawn below (the catalog of ScenarioC holds all of
\* ProgressKeys).
SmallCatalogKeys == {ProgressKeys[1], ProgressKeys[2]}

is_translated_states == <<"translated">>

should_translate_states == <<"new", "needs_review", "mmf_indeterminate">>

should_not_translate_states == <<"stale", "mmf_dont_translate">>

all_states ==
    is_translated_states \o should_translate_states
        \o should_not_translate_states

InList(x, list) == \E i \in 1..Len(list) : list[i] = x

ProgressUnit(state) == [stringUnit |-> [state |-> state]]

\* The entries of the catalogs: units of two locales in every class of
\* state, a locale without unit, an entry without localizations, an entry
\* marked shouldTranslate = false and an entry whose extractionState is
\* 'stale'.
ProgressEntries ==
    {[extractionState |-> "manual",
      localizations |-> [l \in ProgressLocales |->
          ProgressUnit(IF l = "de" THEN "translated" ELSE "new")]],
     [extractionState |-> "manual",
      localizations |-> [l \in {"de"} |-> ProgressUnit("new")]],
     [extractionState |-> "manual",
      localizations |-> [l \in ProgressLocales |->
          ProgressUnit(IF l = "de" THEN "needs_review" ELSE "translated")]],
     [extractionState |-> "manual"],
     [extractionState |-> "manual",
      localizations |-> [l \in ProgressLocales |-> ProgressUnit("stale")]],
     [extractionState |-> "manual", shouldTranslate |-> FALSE,
      localizations |-> [l \in ProgressLocales |-> ProgressUnit("translated")]],
     [extractionState |-> "stale",
      localizations |-> [l \in ProgressLocales |->
          ProgressUnit(IF l = "de" THEN "translated" ELSE "new")]]}

\* A catalog with 8 strings translated to 'de' and 2 new ones.
ScenarioC ==
    [strings |-> [k \in {ProgressKeys[i] : i \in 1..10} |->
        [extractionState |-> "manual",
         localizations |-> [l \in {"de"} |->
             ProgressUnit(IF k \in {ProgressKeys[i] : i \in 1..8}
                          THEN "translated" ELSE "new")]]]]

ProgressCatalogs ==
    {ScenarioC} \cup
    {[strings |-> strings] :
        strings \in UNION {[S -> ProgressEntries] :
            S \in SUBSET SmallCatalogKeys}}

ProgressCalls ==
    [xcstring_objects :
         UNION {[1..n -> ProgressCatalogs] : n \in 0..MaxCatalogs},
     translation_locales : {<<"de">>, <<"de", "fr">>}]

\* Lines 178-181 without the test of 'shouldTranslate'.
StateOf_IgnoreShouldTranslate(string_dict, locale) ==
    IF "localizations" \notin DOMAIN string_dict
    THEN "mmf_indeterminate"
    ELSE IF locale \notin DOMAIN string_dict.localizations
    THEN "mmf_indeterminate"
    ELSE string_dict.localizations[locale].stringUnit.state

\* Lines 178-181: the state `s` of one string for one locale.
StateOf(string_dict, locale) ==
    IF ~(IF "shouldTranslate" \in DOMAIN string_dict
         THEN string_dict.shouldTranslate ELSE TRUE)
    THEN "mmf_dont_translate"
    ELSE IF "localizations" \notin DOMAIN string_dict
    THEN "mmf_indeterminate"
    ELSE IF locale \notin DOMAIN string_dict.localizations
    THEN "mmf_indeterminate"
    ELSE IF "stringUnit" \notin DOMAIN string_dict.localizations[locale]
    THEN "mmf_indeterminate"
    ELSE IF "state" \notin
                DOMAIN string_dict.localizations[locale].stringUnit
    THEN "mmf_indeterminate"
    ELSE string_dict.localizations[locale].stringUnit.state

\* d.get(k, default) and the read of a defaultdict.
GetOr(d, k, default) == IF k \in DOMAIN d THEN d[k] ELSE default

\* The body of the loop of line 174 for one locale (lines 177-191).
CountLocale(acc, key, string_dict, locale) ==
    LET s == StateOf(string_dict, locale)
        state_counts == GetOr(acc.counts, locale, EmptyDict)
    IN  IF ~InList(s, all_states) THEN [acc EXCEPT !.ok = FALSE]
        ELSE [ok |-> TRUE,
              counts |-> DictSet(acc.counts, locale,
                  DictSet(state_counts, s, GetOr(state_counts, s, 0) + 1)),
              missing_keys |->
                  IF InList(s, should_translate_states)
                  THEN DictSet(acc.missing_keys, locale,
                           Append(GetOr(acc.missing_keys, locale, <<>>), key))
                  ELSE acc.missing_keys]

RECURSIVE CountLocales(_, _, _, _, _)
\* The loop of line 174 from position i on.
CountLocales(acc, key, string_dict, locales, i) ==
    IF ~acc.ok \/ i > Len(locales) THEN acc
    ELSE CountLocales(CountLocale(acc, key, string_dict, locales[i]),
                      key, string_dict, locales, i + 1)

RECURSIVE CountKeys(_, _, _, _)
\* The loop of line 172 from position j of ProgressKeys on.
CountKeys(acc, strings, locales, j) ==
    IF ~acc.ok \/ j > Len(ProgressKeys) THEN acc
    ELSE IF ProgressKeys[j] \notin DOMAIN strings
    THEN CountKeys(acc, strings, locales, j + 1)
    ELSE CountKeys(CountLocales(acc, ProgressKeys[j],
                                strings[ProgressKeys[j]], locales, 1),
                   strings, locales, j + 1)

RECURSIVE CountCatalogs(_, _, _, _)
\* The loop of line 171 from position i on.
CountCatalogs(acc, xcstring_objects, locales, i) ==
    IF ~acc.ok \/ i > Len(xcstring_objects) THEN acc
    ELSE CountCatalogs(CountKeys(acc, xcstring_objects[i].strings, locales, 1),
                       xcstring_objects, locales, i + 1)

RECURSIVE SumOver(_, _, _)
\* sum([state_counts.get(s, 0) for s in states]) from position i on.
SumOver(state_counts, states, i) ==
    IF i > Len(states) THEN 0
    ELSE GetOr(state_counts, states[i], 0) + SumOver(state_counts, states, i + 1)

\* translated_count / to_translate_count, kept as the exact quotient.
Quotient(n, d) == [numerator |-> n, denominator |-> d]

ProgressRaised == [status |-> "raised", localization_progress |-> EmptyDict]

ProgressCalled == [status |-> "called", localization_progress |-> EmptyDict]

get_localization_progress(xcstring_objects, translation_locales) ==
    LET acc == CountCatalogs([ok |-> TRUE, counts |-> EmptyDict,
                              missing_keys |-> EmptyDict],
                             xcstring_objects, translation_locales, 1)
        translated_count(locale) ==
            SumOver(acc.counts[locale], is_translated_states, 1)
        to_translate_count(locale) ==
            SumOver(acc.counts[locale],
                    is_translated_states \o should_translate_states, 1)
    IN  IF ~acc.ok THEN ProgressRaised
        ELSE IF \E locale \in DOMAIN acc.counts :
                    to_translate_count(locale) = 0
        THEN ProgressRaised    \* ZeroDivisionError at line 204
        ELSE [status |-> "returned",
              localization_progress |->
                  [locale \in DOMAIN acc.counts |->
                      [translated |-> translated_count(locale),
                       to_translate |-> to_translate_count(locale),
                       percentage |-> Quotient(translated_count(locale),
                                               to_translate_count(locale))]
                      @@ ("missing_keys:" :> acc.missing_keys)]]

ProgressInit ==
    /\ progress_call \in ProgressCalls
    /\ progress_result = ProgressCalled
    /\ SyncNotRunning
    /\ MainNotRunning
    /\ TranslationNotCalled
    /\ MarkdownNotCalled
    /\ LinksNotCalled
    /\ IndentNotCalled
    /\ BuildNotRunning

GetLocalizationProgress ==
    /\ progress_result = ProgressCalled
    /\ progress_result' =
           get_localization_progress(progress_call.xcstring_objects,
                                     progress_call.translation_locales)
    /\ UNCHANGED <<progress_call, syncVars, mainVars, translationVars,
                   markdownVars, callVars, linkVars, indentVars, buildVars>>

ProgressNext == GetLocalizationProgress

SpecProgress == ProgressInit /\ [][ProgressNext]_vars

(***************************************************************************)
(* Properties of get_localization_progress.                                *)
(***************************************************************************)
ProgressReturned == progress_result.status = "returned"

ProgressEnded == progress_result.status \in {"returned", "raised"}

Report == progress_result.localization_progress

Requested ==
    {progress_call.translation_locales[i] :
        i \in 1..Len(progress_call.translation_locales)}

\* The (catalog, key) pairs of the call, and the entry of a pair.
CatalogPairs ==
    {p \in (1..Len(progress_call.xcstring_objects))
              \X {ProgressKeys[j] : j \in 1..Len(ProgressKeys)} :
        p[2] \in DOMAIN progress_call.xcstring_objects[p[1]].strings}

EntryOf(p) == progress_call.xcstring_objects[p[1]].strings[p[2]]

NotToTranslate(p) ==
    "shouldTranslate" \in DOMAIN EntryOf(p) /\ ~EntryOf(p).shouldTranslate

HasUnit(p, locale) ==
    /\ "localizations" \in DOMAIN EntryOf(p)
    /\ locale \in DOMAIN EntryOf(p).localizations

UnitStateIn(p, locale, states) ==
    /\ HasUnit(p, locale)
    /\ EntryOf(p).localizations[locale].stringUnit.state \in states

\* The pairs that count as translated, and those still to translate.
TranslatedPairs(locale) ==
    {p \in CatalogPairs :
        ~NotToTranslate(p) /\ UnitStateIn(p, locale, {"translated"})}

OpenPairs(locale) ==
    {p \in CatalogPairs :
        /\ ~NotToTranslate(p)
        /\ \/ ~HasUnit(p, locale)
           \/ UnitStateIn(p, locale, {"new", "needs_review"})}

SameQuotient(q, n, d) == q.numerator * d = n * q.denominator

LivePairs == {p \in CatalogPairs : EntryOf(p).extractionState # "stale"}

\* C23: an entry whose extractionState is 'stale' adds to neither count of
\* any locale: the counts are those of the other entries.
C23_StaleEntriesExcluded ==
    ProgressReturned =>
        \A locale \in DOMAIN Report :
            /\ Report[locale].translated =
                   Cardinality(TranslatedPairs(locale) \cap LivePairs)
            /\ Report[locale].to_translate =
                   Cardinality((TranslatedPairs(locale) \cup OpenPairs(locale))
                                   \cap LivePairs)

\* C24: when the catalogs hold entries and a requested locale has nothing
\* to translate, the call returns and the percentage of the locale is 1.0.
C24_ZeroDenominator ==
    (ProgressEnded /\ CatalogPairs # {}) =>
        \A locale \in Requested :
            (TranslatedPairs(locale) \cup OpenPairs(locale) = {}) =>
                /\ ProgressReturned
                /\ locale \in DOMAIN Report
                /\ SameQuotient(Report[locale].percentage, 1, 1)

\* How often a key occurs in a list of keys.
CopiesOf(key, list) == Cardinality({i \in 1..Len(list) : list[i] = key})

\* C25: the entry of every locale has a field 'missing_keys' that lists
\* the keys of the pairs still to translate for that locale, and no others.
C25_MissingKeys ==
    ProgressReturned =>
        \A locale \in DOMAIN Report :
            /\ "missing_keys" \in DOMAIN Report[locale]
            /\ \A key \in {ProgressKeys[j] : j \in 1..Len(ProgressKeys)} :
                   CopiesOf(key, Report[locale]["missing_keys"]) =
                       Cardinality({p \in OpenPairs(locale) : p[2] = key})

\* C26: the call returns one entry for every requested locale, also for no
\* catalogs or catalogs without entries (unless a locale has nothing to
\* translate, which is C24).
C26_Aggregation ==
    (ProgressEnded /\ \A locale \in Requested :
         TranslatedPairs(locale) \cup OpenPairs(locale) # {}
         \/ CatalogPairs = {}) =>
        /\ ProgressReturned
        /\ DOMAIN Report = Requested

(***************************************************************************)
(* buildmd.main: the catalog is loaded and the index prefixes are removed  *)
(* from its keys (buildmd.py:220-231).                                     *)
(***************************************************************************)
\* One iteration of the loop of line 226: no guard for a key that has no
\* prefix, unlike syncstrings.py:295.
BuildStripKey(strings, key) ==
    LET key_without_index == remove_index_prefix_from_key(key)
    IN  DictDel(DictSet(strings, key_without_index, strings[key]), key)

RECURSIVE BuildStripLoop(_, _, _)
\* The loop over list(xcstrings['strings'].keys()) from position i on.
BuildStripLoop(strings, keys, i) ==
    IF i > Len(keys) THEN strings
    ELSE BuildStripLoop(BuildStripKey(strings, keys[i]), keys, i + 1)

\* The orders in which a dict may list its keys.
KeyLists(strings) ==
    {keys \in [1..Cardinality(DOMAIN strings) -> DOMAIN strings] :
        \A i, j \in DOMAIN keys : keys[i] = keys[j] => i = j}

BuildInit ==
    /\ build_loaded \in InitCatalogs
    /\ build_strings = [pc |-> "loaded", strings |-> build_loaded]
    /\ SyncNotRunning
    /\ MainNotRunning
    /\ TranslationNotCalled
    /\ MarkdownNotCalled
    /\ ProgressNotCalled
    /\ LinksNotCalled
    /\ IndentNotCalled

BuildStrip ==
    /\ build_strings.pc = "loaded"
    /\ \E keys \in KeyLists(build_loaded) :
           build_strings' =
               [pc |-> "stripped",
                strings |-> BuildStripLoop(build_loaded, keys, 1)]
    /\ UNCHANGED <<build_loaded, syncVars, mainVars, translationVars,
                   markdownVars, callVars, progressVars, linkVars,
                   indentVars>>

BuildNext == BuildStrip

SpecBuild == BuildInit /\ [][BuildNext]_vars

\* C29: after the loop the catalog holds an entry under the bare key of
\* every key it held before, and as many entries as before when no two keys
\* share a bare key.
C29_StrippingKeepsEntries ==
    build_strings.pc = "stripped" =>
        /\ \A k \in DOMAIN build_loaded :
               remove_index_prefix_from_key(k) \in DOMAIN build_strings.strings
        /\ (\A k1, k2 \in DOMAIN build_loaded :
                remove_index_prefix_from_key(k1) =
                    remove_index_prefix_from_key(k2) => k1 = k2)
            => Cardinality(DOMAIN build_strings.strings) =
                   Cardinality(DOMAIN build_loaded)

(***************************************************************************)
(* get_indent and set_indent (mfutils.py:198-268).  A string is the        *)
(* sequence of its lines, as string.split('\n') gives them, and a line is  *)
(* the sequence of its characters; '\n'.join puts the lines back.          *)
(***************************************************************************)
MaxLines == 2

MaxLevel == 2

MaxLineLen == 2

FormFeed == "\f"

Tab == "\t"

\* str.isspace() on the characters drawn below.
IsSpaceChar(c) == c \in {" ", FormFeed, Tab}

\* The lines of the strings: a space, another whitespace character and a
\* letter in every arrangement, and lines with a tab.
IndentLines ==
    UNION {[1..n -> {" ", FormFeed, "a"}] : n \in 0..MaxLineLen}
        \cup {<<Tab, "a">>, <<" ", Tab, "a">>}

IndentStrings == UNION {[1..n -> IndentLines] : n \in 1..MaxLines}

IndentCalls == [string : IndentStrings, indent_level : 0..MaxLevel]

\* is_empty of line 210.
is_empty(line) == \A i \in 1..Len(line) : IsSpaceChar(line[i])

\* line[n:]
DropChars(line, n) ==
    IF n >= Len(line) THEN <<>> ELSE SubSeq(line, n + 1, Len(line))

\* character * n
Repeat(character, n) == [i \in 1..n |-> character]

\* The value None of indent_char.
NoIndentChar == "None"

IndentRaised == [raised |-> TRUE, indent_level |-> 0, indent_char |-> ""]

IndentOf(indent_level, indent_char) ==
    [raised |-> FALSE, indent_level |-> indent_level,
     indent_char |-> indent_char]

RECURSIVE ScanColumn(_, _, _)
\* The loop of line 229 over the lines from position i on, for the column
\* indent_level: "raise" (the assertion of line 231, or an index past the
\* end of the line), "break" or "continue".
ScanColumn(lines, indent_level, i) ==
    IF i > Len(lines) THEN "continue"
    ELSE IF indent_level + 1 > Len(lines[i]) THEN "raise"
    ELSE IF lines[i][indent_level + 1] = Tab THEN "raise"
    ELSE LET is_space == IsSpaceChar(lines[i][indent_level + 1])
             is_differnt ==
                 IF i > 1
                 THEN lines[i][indent_level + 1] #
                          lines[i - 1][indent_level + 1]
                 ELSE FALSE
         IN  IF ~is_space \/ is_differnt THEN "break"
             ELSE ScanColumn(lines, indent_level, i + 1)

RECURSIVE CountIndent(_, _)
\* The loop of line 223 from indent_level on: the level it ends with, or -1
\* when it raises.
CountIndent(lines, indent_level) ==
    LET scan == ScanColumn(lines, indent_level, 1)
    IN  IF scan = "raise" THEN -1
        ELSE IF scan = "break" THEN indent_level
        ELSE CountIndent(lines, indent_level + 1)

get_indent(string) ==
    LET lines == SelectSeq(string, LAMBDA line : ~is_empty(line))
    IN  IF string = <<<<>>>> THEN IndentOf(0, "")
        ELSE IF Len(lines) = 0 THEN IndentOf(0, "")
        ELSE LET indent_level == CountIndent(lines, 0)
             IN  IF indent_level < 0 THEN IndentRaised
                 ELSE IndentOf(indent_level,
                               IF indent_level = 0 THEN NoIndentChar
                               ELSE lines[1][1])

\* set_indent without the removal of the existing indent (lines 254-258).
set_indent_KeepOld(string, indent_level, indent_character) ==
    [raised |-> FALSE,
     string |-> IF indent_level > 0
                THEN [i \in 1..Len(string) |->
                         Repeat(indent_character, indent_level) \o string[i]]
                ELSE string]

set_indent(string, indent_level, indent_character) ==
    LET old == get_indent(string)
        unindented ==
            IF old.indent_level > 0
            THEN [i \in 1..Len(string) |->
                     DropChars(string[i], old.indent_level)]
            ELSE string
    IN  IF old.raised THEN [raised |-> TRUE, string |-> string]
        ELSE [raised |-> FALSE,
              string |-> IF indent_level > 0
                         THEN [i \in 1..Len(unindented) |->
                                  Repeat(indent_character, indent_level)
                                      \o unindented[i]]
                         ELSE unindented]

IndentInit ==
    /\ indent_call \in IndentCalls
    /\ indent_result = [pc |-> "called", string |-> indent_call.string,
                        indent |-> IndentRaised]
    /\ SyncNotRunning
    /\ MainNotRunning
    /\ TranslationNotCalled
    /\ MarkdownNotCalled
    /\ ProgressNotCalled
    /\ LinksNotCalled
    /\ BuildNotRunning

\* set_indent(string, indent_level, ' ')
SetIndent ==
    /\ indent_result.pc = "called"
    /\ LET r == set_indent(indent_call.string, indent_call.indent_level, " ")
       IN  indent_result' =
               [indent_result EXCEPT
                   !.pc = IF r.raised THEN "raised" ELSE "set",
                   !.string = r.string]
    /\ UNCHANGED <<indent_call, syncVars, mainVars, translationVars,
                   markdownVars, callVars, progressVars, linkVars, buildVars>>

\* get_indent of what set_indent returned.
GetIndent ==
    /\ indent_result.pc = "set"
    /\ LET r == get_indent(indent_result.string)
       IN  indent_result' =
               [indent_result EXCEPT
                   !.pc = IF r.raised THEN "raised" ELSE "got",
                   !.indent = r]
    /\ UNCHANGED <<indent_call, syncVars, mainVars, translationVars,
                   markdownVars, callVars, progressVars, linkVars, buildVars>>

IndentNext == SetIndent \/ GetIndent

SpecIndent == IndentInit /\ [][IndentNext]_vars

(***************************************************************************)
(* Properties of set_indent and get_indent.                                *)
(***************************************************************************)
\* The text of the call has no tab and has a line that is not blank.
TabFreeText ==
    /\ \A i \in 1..Len(indent_call.string) :
           \A j \in 1..Len(indent_call.string[i]) :
               indent_call.string[i][j] # Tab
    /\ \E i \in 1..Len(indent_call.string) :
           \E j \in 1..Len(indent_call.string[i]) :
               indent_call.string[i][j] \notin {" ", FormFeed}

\* C28: for every level, 0 included, get_indent of set_indent(text, level,
\* ' ') is (level, ' ').
C28_IndentRoundTrip ==
    (TabFreeText /\ indent_result.pc = "got") =>
        /\ indent_result.indent.indent_level = indent_call.indent_level
        /\ indent_result.indent.indent_char = " "

\* C28 as the code has it: neither call raises, and the pair returned is
\* (level, ' ') for a level of 1 or more and (0, None) for level 0.
C28_IndentRoundTripFromOne ==
    TabFreeText =>
        /\ indent_result.pc # "raised"
        /\ indent_result.pc = "got" =>
               /\ indent_result.indent.indent_level = indent_call.indent_level
               /\ indent_result.indent.indent_char =
                      IF indent_call.indent_level = 0 THEN NoIndentChar
                      ELSE " "

\* A text whose two lines were indented by one space has been set to
\* level 2, which took the old indent away, and read back.
C28_Witness ==
    /\ indent_result.pc = "got"
    /\ indent_call.indent_level = 2
    /\ Len(indent_call.string) = 2
    /\ indent_call.string[1] = <<" ", "a">>
    /\ indent_call.string[2] = <<" ", "a">>
    /\ indent_result.string[1] = <<" ", " ", "a">>
    /\ indent_result.indent = IndentOf(2, " ")

(***************************************************************************)
(* replace_markdown_urls_with_format_specifiers and                        *)
(* replace_format_specifiers_with_markdown_urls (mfutils.py:412-500).  A   *)
(* string is a sequence of tokens: the characters '[', ']', '(', ')', the  *)
(* letters of texts and urls, and the placeholders '{url}', '{url_1}', ... *)
(* each as one token (no placeholder overlaps another, so replacing them   *)
(* token by token is replacing them character by character).               *)
(***************************************************************************)
MaxParts == 3

\* f'{{url_{url_ctr}}}' for url_ctr = 1, 2, ...
NumberedPlaceholders ==
    <<"{url_1}", "{url_2}", "{url_3}", "{url_4}", "{url_5}">>

\* Lines 456-458 and 491-493.
Placeholder(url_count, url_ctr) ==
    IF url_count = 1 THEN "{url}" ELSE NumberedPlaceholders[url_ctr]

\* [label](url)
MdLink(label, url) == <<"[">> \o label \o <<"]", "(">> \o url \o <<")">>

\* The parts the strings are made of: links whose text holds the url or
\* not, whose url is plain or spells a placeholder, and text between links
\* that is plain or spells a placeholder.
LinkParts ==
    {MdLink(label, url) :
        label \in {<<"a">>, <<"a", "u">>},
        url \in {<<"u">>, <<"w">>, <<"{url_2}">>}}

TextParts == {<<"a">>, <<"{url}">>, <<"{url_1}">>}

RECURSIVE Joined(_, _)
Joined(parts, i) ==
    IF i > Len(parts) THEN <<>> ELSE parts[i] \o Joined(parts, i + 1)

LinkStrings ==
    {Joined(parts, 1) :
        parts \in UNION {[1..n -> LinkParts \cup TextParts] : n \in 0..MaxParts}}

\* The first position from i on that holds token t, 0 when there is none.
FirstAt(s, t, i) ==
    IF \E j \in i..Len(s) : s[j] = t
    THEN CHOOSE j \in i..Len(s) :
             s[j] = t /\ \A k \in i..(j - 1) : s[k] # t
    ELSE 0

NoLink == [found |-> FALSE, last |-> 0, url |-> <<>>]

\* mdlink_regex matched at position p: '[', one or more tokens other than
\* ']', then ']', '(', one or more tokens other than ')', then ')'.
MdLinkAt(s, p) ==
    IF p > Len(s) \/ s[p] # "[" THEN NoLink
    ELSE LET q == FirstAt(s, "]", p + 1)
         IN  IF q = 0 \/ q = p + 1 \/ q + 1 > Len(s) THEN NoLink
             ELSE IF s[q + 1] # "(" THEN NoLink
             ELSE LET r == FirstAt(s, ")", q + 2)
                  IN  IF r = 0 \/ r = q + 2 THEN NoLink
                      ELSE [found |-> TRUE, last |-> r,
                            url |-> SubSeq(s, q + 2, r - 1)]

RECURSIVE FindAll(_, _)
\* re.findall(mdlink_regex, s) from position p on: the urls of the matches,
\* which do not overlap.
FindAll(s, p) ==
    IF p > Len(s) THEN <<>>
    ELSE LET m == MdLinkAt(s, p)
         IN  IF m.found THEN <<m.url>> \o FindAll(s, m.last + 1)
             ELSE FindAll(s, p + 1)

RECURSIVE Replace(_, _, _, _)
\* s.replace(old, new) from position i on: every occurrence of `old`,
\* taken from the left.
Replace(s, old, new, i) ==
    IF i > Len(s) THEN <<>>
    ELSE IF i + Len(old) - 1 <= Len(s)
            /\ SubSeq(s, i, i + Len(old) - 1) = old
    THEN new \o Replace(s, old, new, i + Len(old))
    ELSE <<s[i]>> \o Replace(s, old, new, i + 1)

\* get_replacement (lines 449-462) for the url_ctr-th match.
get_replacement(s, p, m, url_count, url_ctr) ==
    Replace(SubSeq(s, p, m.last), m.url,
            <<Placeholder(url_count, url_ctr)>>, 1)

RECURSIVE Sub(_, _, _, _)
\* re.sub(mdlink_regex, get_replacement, s) from position p on, url_ctr
\* matches having been replaced.
Sub(s, p, url_count, url_ctr) ==
    IF p > Len(s) THEN <<>>
    ELSE LET m == MdLinkAt(s, p)
         IN  IF m.found
             THEN get_replacement(s, p, m, url_count, url_ctr + 1)
                      \o Sub(s, m.last + 1, url_count, url_ctr + 1)
             ELSE <<s[p]>> \o Sub(s, p + 1, url_count, url_ctr)

replace_markdown_urls_with_format_specifiers(md) ==
    LET removed_urls == FindAll(md, 1)
    IN  [md_string |-> Sub(md, 1, Len(removed_urls), 0),
         removed_urls |-> removed_urls]

RECURSIVE ReinsertFrom(_, _, _)
\* The loop of line 489 from url_ctr on.
ReinsertFrom(result, urls, url_ctr) ==
    IF url_ctr > Len(urls) THEN [raised |-> FALSE, md_string |-> result]
    ELSE LET placeholder == Placeholder(Len(urls), url_ctr)
         IN  IF ~\E i \in 1..Len(result) : result[i] = placeholder
             THEN [raised |-> TRUE, md_string |-> result]
             ELSE ReinsertFrom(Replace(result, <<placeholder>>,
                                       urls[url_ctr], 1),
                               urls, url_ctr + 1)

replace_format_specifiers_with_markdown_urls(md, urls) ==
    ReinsertFrom(md, urls, 1)

LinksInit ==
    /\ link_string \in LinkStrings
    /\ link_result = [pc |-> "called", md_string |-> link_string,
                      removed_urls |-> <<>>]
    /\ SyncNotRunning
    /\ MainNotRunning
    /\ TranslationNotCalled
    /\ MarkdownNotCalled
    /\ ProgressNotCalled
    /\ IndentNotCalled
    /\ BuildNotRunning

ReplaceUrls ==
    /\ link_result.pc = "called"
    /\ LET r == replace_markdown_urls_with_format_specifiers(link_string)
       IN  link_result' = [pc |-> "replaced", md_string |-> r.md_string,
                           removed_urls |-> r.removed_urls]
    /\ UNCHANGED <<link_string, syncVars, mainVars, translationVars,
                   markdownVars, callVars, progressVars, indentVars,
                   buildVars>>

ReinsertUrls ==
    /\ link_result.pc = "replaced"
    /\ LET r == replace_format_specifiers_with_markdown_urls(
                    link_result.md_string, link_result.removed_urls)
       IN  link_result' =
               [link_result EXCEPT
                   !.pc = IF r.raised THEN "raised" ELSE "reinserted",
                   !.md_string = r.md_string]
    /\ UNCHANGED <<link_string, syncVars, mainVars, translationVars,
                   markdownVars, callVars, progressVars, indentVars,
                   buildVars>>

LinksNext == ReplaceUrls \/ ReinsertUrls

SpecLinks == LinksInit /\ [][LinksNext]_vars

(***************************************************************************)
(* Properties of the two link functions.                                   *)
(***************************************************************************)
\* C27: putting the removed urls back into the string with the placeholders
\* gives the string the urls were taken from.
C27_LinkRoundTrip ==
    /\ link_result.pc # "raised"
    /\ link_result.pc = "reinserted" => link_result.md_string = link_string

\* The string spells no placeholder itself.
NoPlaceholderText ==
    \A i \in 1..Len(link_string) :
        /\ link_string[i] # "{url}"
        /\ \A n \in 1..Len(NumberedPlaceholders) :
               link_string[i] # NumberedPlaceholders[n]

\* The round trip of the strings that spell no placeholder: one url per
\* link in the order of the links, '{url}' for a single link and
\* '{url_i}' otherwise, and the original string after the reinsertion.
RoundTripWithoutPlaceholderText ==
    NoPlaceholderText =>
        /\ link_result.pc # "raised"
        /\ link_result.pc = "replaced" =>
               \A n \in 1..Len(link_result.removed_urls) :
                   \E i \in 1..Len(link_result.md_string) :
                       link_result.md_string[i] =
                           IF Len(link_result.removed_urls) = 1 THEN "{url}"
                           ELSE NumberedPlaceholders[n]
        /\ link_result.pc = "reinserted" => link_result.md_string = link_string

=============================================================================
